---------------------------- MODULE Spec2Model ----------------------------
(***************************************************************************)
(* A model of the episode timeline of undaunt/bulldozer:                   *)
(*   src/classes/file_analyzer.py   FileAnalyzer (the Timeline)            *)
(*   src/classes/file_organizer.py  FileOrganizer (renames, numbering)     *)
(*                                                                         *)
(* Python values are represented as follows.                               *)
(*   None                  the empty tuple << >>                           *)
(*   a canonical date      the tuple <<year, month, day>>; the string      *)
(*                         'YYYY-MM-DD' is zero padded and of fixed width, *)
(*                         so str < str is the field-wise order LexLess    *)
(*   "Unknown"             the tuple <<"Unknown">>                         *)
(*   an int year           the 1-tuple <<year>> (so that it can be None)   *)
(*   a dict                a function on the set of its keys; a key order  *)
(*                         (dict(sorted(...)), line 61) has no meaning for *)
(*                         a function and is not represented               *)
(*   a list                a sequence                                      *)
(*   a pathlib.Path        a record of the parts of the path the code      *)
(*                         reads: name stem, date embedded in the name,    *)
(*                         suffix; for the organizer also the folder, the  *)
(*                         'Ep. NN' segment and the words of the name      *)
(*   a str of words        the sequence of its words and punctuation marks *)
(***************************************************************************)
EXTENDS Integers, Sequences, FiniteSets, Bags, TLC

(* ------------------------------ bounds --------------------------------- *)

\* number of files of one scan that yield metadata
MaxFiles == 2
\* number of distinct canonical calendar dates
NumDates == 2

(* ------------------------------ values --------------------------------- *)

None == << >>
Unknown == <<"Unknown">>

DateList ==
  << <<2020, 1, 1>>, <<2021, 1, 1>>, <<2020, 12, 31>>, <<2019, 6, 15>> >>
Dates == {DateList[i] : i \in 1..NumDates}

PathList ==
  << [name |-> "a", date |-> None,        suffix |-> ".mp3"],
     [name |-> "b", date |-> DateList[1], suffix |-> ".m4a"],
     [name |-> "c", date |-> None,        suffix |-> ".MP3"] >>
Paths == {PathList[i] : i \in 1..Len(PathList)}

EmptyMap == [k \in {} |-> << >>]

\* str.lower() on the suffixes and words that occur
Lower(s) ==
  CASE s = ".MP3" -> ".mp3"
    [] s = "Launch" -> "launch"
    [] s = "LAUNCH" -> "launch"
    [] s = "Party" -> "party"
    [] s = "Growth" -> "growth"
    [] s = "Trailer" -> "trailer"
    [] s = "Bonus" -> "bonus"
    [] OTHER -> s

\* date_str < other on canonical 'YYYY-MM-DD' strings
LexLess(a, b) ==
  \/ a[1] < b[1]
  \/ a[1] = b[1] /\ a[2] < b[2]
  \/ a[1] = b[1] /\ a[2] = b[2] /\ a[3] < b[3]

(* ------------------------- list and dict helpers ----------------------- *)

\* file_path in some_list
InList(p, list) == \E i \in 1..Len(list) : list[i] = p

FirstIndex(p, list) == CHOOSE i \in 1..Len(list) :
  list[i] = p /\ \A j \in 1..(i - 1) : list[j] # p

\* list.remove(p): removes the first occurrence only
ListRemove(list, p) ==
  LET i == FirstIndex(p, list)
  IN  SubSeq(list, 1, i - 1) \o SubSeq(list, i + 1, Len(list))

\* defaultdict(list)[k].append(p)
DictAppend(m, k, p) ==
  IF k \in DOMAIN m THEN [m EXCEPT ![k] = Append(@, p)]
  ELSE [j \in DOMAIN m \cup {k} |-> IF j = k THEN <<p>> ELSE m[j]]


\* {k: v for k, v in d.items() if v}
Pruned(m) == [k \in {j \in DOMAIN m : Len(m[j]) > 0} |-> m[k]]

\* for some_list in d.values(): if p in some_list: some_list.remove(p)
RemoveFromAll(m, p) ==
  [k \in DOMAIN m |-> IF InList(p, m[k]) THEN ListRemove(m[k], p) ELSE m[k]]

\* a slip in update_file_path: new is appended but old is not removed
UpdateInAll_KeepOld(m, old, new) ==
  [k \in DOMAIN m |-> IF InList(old, m[k]) THEN Append(m[k], new) ELSE m[k]]

\* for some_list in d.values():
\*     if old in some_list: some_list.remove(old); some_list.append(new)
UpdateInAll(m, old, new) ==
  [k \in DOMAIN m |->
     IF InList(old, m[k]) THEN Append(ListRemove(m[k], old), new) ELSE m[k]]

(* ------------------------------ state ---------------------------------- *)

VARIABLES
  file_dates,              \* FileAnalyzer.file_dates: date key -> list of paths
  bitrates,                \* FileAnalyzer.bitrates: bitrate string -> list
  file_formats,            \* FileAnalyzer.file_formats: format -> list
  original_files,          \* the keys of FileAnalyzer.original_files ({} for None)
  earliest_year,
  first_episode_date,
  last_episode_date,
  real_first_episode_date,
  real_last_episode_date,
  all_vbr,
  all_bad,                 \* the local all_bad of the scan in progress / last scan
  pc,                      \* "new" | "scan" | "ready" | "raised"
  extracted,               \* paths of this scan for which metadata was returned
  undated,                 \* paths of this scan whose date resolved to "Unknown"
  durations,               \* the keys of FileAnalyzer.durations: lengths in seconds
  folder_path,             \* Podcast.folder_path: the name of the podcast folder
  files,                   \* the paths of the files in the podcast folder
  feed,                    \* what Rss.get_episodes() returns: titles in feed order
  trailer_patterns,        \* config 'trailer_patterns'
  unwanted_files,          \* config 'unwanted_files'
  full_years_only,         \* config 'full_years_only'
  completed,               \* Podcast.completed
  opc,                     \* position in organize_files, "idle" outside of it
  assigned,                \* the renames of assign_episode_numbers_from_rss
  resolved,                \* a process_metadata call: its inputs and the date key
  db,                      \* Database.table: hash -> the stored document
  dbpc                     \* "idle", or "raised" when a database call raised

vars == <<file_dates, bitrates, file_formats, original_files, earliest_year,
          first_episode_date, last_episode_date, real_first_episode_date,
          real_last_episode_date, all_vbr, all_bad, pc, extracted,
          undated, durations, folder_path, files, feed, trailer_patterns, unwanted_files,
          full_years_only, completed, opc, assigned, resolved, db, dbpc>>

config == <<feed, trailer_patterns, unwanted_files, full_years_only, completed>>
orgvars == <<folder_path, files, config, opc, assigned>>
scanvars == <<original_files, all_vbr, all_bad, pc, extracted, undated,
              durations>>
dbvars == <<db, dbpc>>
auxvars == <<resolved, dbvars>>

bounds == <<earliest_year, first_episode_date, last_episode_date,
            real_first_episode_date, real_last_episode_date>>

Snapshot == [dates |-> file_dates, bitrates |-> bitrates, formats |-> file_formats]


\* number of occurrences of a path in a list / in all the lists of a mapping
Count(list, p) == Cardinality({i \in 1..Len(list) : list[i] = p})
Slots(m) == UNION {{<<k, i>> : i \in 1..Len(m[k])} : k \in DOMAIN m}
CountIn(m, p) == Cardinality({s \in Slots(m) : m[s[1]][s[2]] = p})
TrackedIn(m, p) == \E k \in DOMAIN m : InList(p, m[k])
Tracked(p) ==
  TrackedIn(file_dates, p) \/ TrackedIn(bitrates, p) \/ TrackedIn(file_formats, p)

\* some path sits more than once in the lists of one mapping
DuplicatedIn(m) ==
  \E s \in Slots(m), t \in Slots(m) : s # t /\ m[s[1]][s[2]] = m[t[1]][t[2]]
Duplicated ==
  DuplicatedIn(file_dates) \/ DuplicatedIn(bitrates) \/ DuplicatedIn(file_formats)

(* --------------------------- get_date_range ---------------------------- *)

\* int(str(date_str)[:4]); every key the scan produces is canonical, so the
\* ValueError branch (lines 180-182) is not taken
IntYear(date_str) == <<date_str[1]>>

\* a slip in lines 186-189: the all-time bounds are seeded from the first key
\* only and no longer follow the observed bounds
CurrentStep_RealNotFollowing(b, date_str) ==
  IF date_str # Unknown
  THEN
    LET year == <<date_str[1]>>
        b1 == IF b.earliest_year = None
                 \/ (year[1] # 0 /\ year[1] < b.earliest_year[1])
              THEN [b EXCEPT !.earliest_year = year] ELSE b
        b2 == IF b1.first = None
              THEN [b1 EXCEPT !.first = date_str, !.real_first = date_str]
              ELSE IF LexLess(date_str, b1.first)
              THEN [b1 EXCEPT !.first = date_str] ELSE b1
        b3 == IF b2.last = None
              THEN [b2 EXCEPT !.last = date_str, !.real_last = date_str]
              ELSE IF LexLess(b2.last, date_str)
              THEN [b2 EXCEPT !.last = date_str] ELSE b2
    IN  b3
  ELSE b

\* one iteration of the loop over self.file_dates.keys(), lines 176-193
CurrentStep(b, date_str) ==
  IF date_str # Unknown
  THEN
    LET year == IntYear(date_str)
        b1 == IF b.earliest_year = None
                 \/ (year[1] # 0 /\ year[1] < b.earliest_year[1])
              THEN [b EXCEPT !.earliest_year = year] ELSE b
        b2 == IF b1.first = None \/ LexLess(date_str, b1.first)
              THEN [b1 EXCEPT !.first = date_str, !.real_first = date_str]
              ELSE b1
        b3 == IF b2.last = None \/ LexLess(b2.last, date_str)
              THEN [b2 EXCEPT !.last = date_str, !.real_last = date_str]
              ELSE b2
    IN  b3
  ELSE b

\* a slip in lines 199-202: a preserved key overwrites the all-time bounds
\* instead of extending them
OriginalStep_Overwrite(b, date_str) ==
  IF date_str # Unknown
  THEN [b EXCEPT !.real_first = date_str, !.real_last = date_str]
  ELSE b

\* one iteration of the loop over self.original_files.keys(), lines 197-202
OriginalStep(b, date_str) ==
  IF date_str # Unknown
  THEN
    LET b1 == IF b.real_first = None \/ LexLess(date_str, b.real_first)
              THEN [b EXCEPT !.real_first = date_str] ELSE b
        b2 == IF b1.real_last = None \/ LexLess(b1.real_last, date_str)
              THEN [b1 EXCEPT !.real_last = date_str] ELSE b1
    IN  b2
  ELSE b

RECURSIVE CurrentLoop(_, _)
CurrentLoop(keys, b) ==
  IF keys = {} THEN b
  ELSE LET k == CHOOSE x \in keys : TRUE
       IN  CurrentLoop(keys \ {k}, CurrentStep(b, k))

RECURSIVE OriginalLoop(_, _)
OriginalLoop(keys, b) ==
  IF keys = {} THEN b
  ELSE LET k == CHOOSE x \in keys : TRUE
       IN  OriginalLoop(keys \ {k}, OriginalStep(b, k))

NoBounds == [earliest_year |-> None, first |-> None, last |-> None,
             real_first |-> None, real_last |-> None]

\* FileAnalyzer.get_date_range: the pruned mapping and the five bounds
get_date_range(fd, orig) ==
  LET pruned == Pruned(fd)
      cur == CurrentLoop(DOMAIN pruned, NoBounds)
      all == IF orig # {} THEN OriginalLoop(orig, cur) ELSE cur
  IN  [file_dates |-> pruned, b |-> all]

SetBounds(b) ==
  /\ earliest_year' = b.earliest_year
  /\ first_episode_date' = b.first
  /\ last_episode_date' = b.last
  /\ real_first_episode_date' = b.real_first
  /\ real_last_episode_date' = b.real_last

(* ------------------------- the audio collaborator ---------------------- *)

\* raw recording-date tokens a tag can hold: none, one no parser accepts,
\* or the ISO form of a calendar date
RecordingDates == {None, <<"garbage">>} \cup {<<"iso", d>> : d \in Dates}

\* what mutagen.File(file_path) can return for a path: nothing usable, or an
\* MP3 / MP4 object with the value its date tags yield (None also when the
\* tag read raised, line 107), its bitrate round(info.bitrate / 1000) and its
\* bitrate mode.  The audio stream of a path is the same in every scan: "a" is
\* a VBR MP3, "b" a 128 kbps MP4, every other path a 128 kbps CBR MP3; the
\* tags are free.
Corrupt == [kind |-> "corrupt", recording_date |-> None, bitrate |-> 0, vbr |-> FALSE]
AudioFiles(p) ==
  {Corrupt} \cup
  IF Lower(p.suffix) = ".m4a"
  THEN [kind : {"mp4"}, recording_date : RecordingDates, bitrate : {128}, vbr : {FALSE}]
  ELSE [kind : {"mp3"}, recording_date : RecordingDates, bitrate : {128},
        vbr : {p.name = "a"}]

\* file_path.stat().st_mtime as a calendar date, or None when stat() raises;
\* stat() is called only on the last branch of the cascade (line 281)
MTimes(file_path, af) ==
  IF af.kind # "corrupt" /\ af.recording_date = None /\ file_path.date = None
  THEN {None} \cup Dates ELSE {None}

(* -------------------------- analyze_audio_file ------------------------- *)

\* audiofile.info.length of a path, in seconds: "a" and "c" last a minute,
\* "b" a minute and a half
Length(file_path) == IF file_path.name = "b" THEN 90 ELSE 60

\* line 76: any(pattern.lower() in file_path.name.lower() ...); the names
\* "a", "b", "c" hold no word of a trailer pattern
NamedAsTrailer(patterns, file_path) ==
  \E i \in 1..Len(patterns) : FALSE

\* analyze_audio_file, lines 76-79: the keys of self.durations after the file
Timed(d, patterns, file_path) ==
  IF ~NamedAsTrailer(patterns, file_path) /\ Length(file_path) # 0
  THEN d \cup {Length(file_path)} ELSE d

\* FileAnalyzer.analyze_audio_file: the metadata dict, or None
analyze_audio_file(af) ==
  IF af.kind = "corrupt" THEN None
  ELSE IF af.kind = "mp3"
  THEN [recording_date |-> af.recording_date, bitrate |-> af.bitrate,
        bitrate_mode |-> IF af.vbr THEN "VBR" ELSE "CBR"]
  ELSE [recording_date |-> af.recording_date, bitrate |-> af.bitrate,
        bitrate_mode |-> IF af.bitrate # 0 THEN "CBR" ELSE "VBR"]

(* ---------------------------- process_metadata ------------------------- *)

\* the empty string, which a tag can hold and `if recording_date:` rejects
EmptyToken == <<"">>

\* every raw token process_metadata can be given.  Beside RecordingDates: the
\* empty string, <<"lenient", d>> (no fixed format fits, dateutil reads d),
\* <<"rfc822", d>> (only parsedate_to_datetime reads it, as d) and
\* <<"both", d, e>> (a fixed format reads d where dateutil would read e, as
\* a bare year does)
AllRecordingDates ==
  RecordingDates \cup {EmptyToken}
    \cup {<<"lenient", d>> : d \in Dates}
    \cup {<<"rfc822", d>> : d \in Dates}
    \cup {<<"both", d, e>> : d \in Dates, e \in Dates}

\* lines 234-240: datetime.strptime over date_formats, None when no format fits
StrptimeFormats(tok) ==
  IF tok[1] \in {"iso", "both"} THEN tok[2] ELSE None

\* lines 243-249: dateutil parse, None on ValueError
DateutilParse(tok) ==
  IF tok[1] \in {"iso", "lenient"} THEN tok[2]
  ELSE IF tok[1] = "both" THEN tok[3]
  ELSE None

\* lines 251-257: email.utils.parsedate_to_datetime, None when it raises
ParsedateToDatetime(tok) ==
  IF tok[1] = "rfc822" THEN tok[2] ELSE None

\* lines 234-257: strptime over date_formats, then dateutil parse, then
\* parsedate_to_datetime: the datetime of the token, or None when every parser
\* rejects it
ParseToken(tok) ==
  IF StrptimeFormats(tok) # None THEN StrptimeFormats(tok)
  ELSE IF DateutilParse(tok) # None THEN DateutilParse(tok)
  ELSE ParsedateToDatetime(tok)

\* a file-name substring that fits \d{4}-\d{2}-\d{2} and is no calendar date
InvalidDate == <<"2023-13-45">>

\* lines 272-277: strptime(date_str, '%Y-%m-%d') accepts the substring
IsCalendarDate(d) == Len(d) = 3

\* a slip in lines 259-265: a token no parser accepts falls through to the
\* file name and the modification time
ResolveDate_FallThrough(recording_date, file_path, mtime) ==
  IF recording_date \notin {None, EmptyToken} /\ ParseToken(recording_date) # None
  THEN ParseToken(recording_date)
  ELSE IF file_path.date # None
  THEN (IF IsCalendarDate(file_path.date) THEN file_path.date ELSE Unknown)
  ELSE IF mtime # None THEN mtime
  ELSE Unknown

\* lines 211-288: the date key of a file
ResolveDate(recording_date, file_path, mtime) ==
  IF recording_date \notin {None, EmptyToken}
  THEN LET date_obj == ParseToken(recording_date)
       IN  IF date_obj # None THEN date_obj ELSE Unknown
  ELSE IF file_path.date # None
  THEN (IF IsCalendarDate(file_path.date) THEN file_path.date ELSE Unknown)
  ELSE IF mtime # None THEN mtime
  ELSE Unknown

\* f"{bitrate} kbps"
KbpsString(bitrate) == IF bitrate = 128 THEN "128 kbps" ELSE "0 kbps"

\* line 295
BitrateStr(metadata) ==
  IF metadata.bitrate_mode = "VBR" THEN "VBR"
  ELSE IF metadata.bitrate # 0 THEN KbpsString(metadata.bitrate)
  ELSE "Unknown"

\* file_path.suffix.lower()[1:]
FileFormat(file_path) == IF Lower(file_path.suffix) = ".m4a" THEN "m4a" ELSE "mp3"

\* a slip in line 291: a file whose date is "Unknown" is not appended to
\* file_dates
process_metadata_DropUnknown(tl, metadata, file_path, mtime) ==
  LET date_str == IF metadata.recording_date # None
                  THEN (IF metadata.recording_date[1] = "iso"
                        THEN metadata.recording_date[2] ELSE Unknown)
                  ELSE IF file_path.date # None THEN file_path.date
                  ELSE IF mtime # None THEN mtime ELSE Unknown
  IN  [dates    |-> IF date_str = Unknown THEN tl.dates
                    ELSE DictAppend(tl.dates, date_str, file_path),
       bitrates |-> DictAppend(tl.bitrates,
                               IF metadata.bitrate_mode = "VBR" THEN "VBR"
                               ELSE "128 kbps", file_path),
       formats  |-> DictAppend(tl.formats,
                               IF Lower(file_path.suffix) = ".m4a" THEN "m4a" ELSE "mp3",
                               file_path)]

\* lines 291-299: the three appends
process_metadata(tl, metadata, file_path, mtime) ==
  [dates    |-> DictAppend(tl.dates,
                           ResolveDate(metadata.recording_date, file_path, mtime),
                           file_path),
   bitrates |-> DictAppend(tl.bitrates, BitrateStr(metadata), file_path),
   formats  |-> DictAppend(tl.formats, FileFormat(file_path), file_path)]

(* ------------------------------ actions -------------------------------- *)

Init ==
  /\ file_dates = EmptyMap
  /\ bitrates = EmptyMap
  /\ file_formats = EmptyMap
  /\ original_files = {}
  /\ earliest_year = None
  /\ first_episode_date = None
  /\ last_episode_date = None
  /\ real_first_episode_date = None
  /\ real_last_episode_date = None
  /\ all_vbr = TRUE
  /\ all_bad = TRUE
  /\ pc = "new"
  /\ extracted = {}
  /\ undated = {}
  /\ durations = {}
  /\ folder_path = "Show"
  /\ files = {}
  /\ feed = << >>
  /\ trailer_patterns = << >>
  /\ unwanted_files = << >>
  /\ full_years_only = FALSE
  /\ completed = FALSE
  /\ opc = "idle"
  /\ assigned = {}
  /\ resolved = None
  /\ db = EmptyMap
  /\ dbpc = "idle"

\* a slip in line 42: every rebuild preserves the mapping it starts with
Preserved_EveryRebuild(orig, fd) ==
  IF fd # EmptyMap THEN DOMAIN fd ELSE orig

\* analyze_files, lines 42-43: the keys of self.original_files after the test
\* `if self.file_dates and not self.original_files`
Preserved(orig, fd) ==
  IF fd # EmptyMap /\ orig = {} THEN DOMAIN fd ELSE orig

\* analyze_files, lines 40-48: reset the mappings, preserve the prior one once
AnalyzeFilesBegin ==
  /\ pc \in {"new", "ready"}
  /\ bitrates' = EmptyMap
  /\ file_formats' = EmptyMap
  /\ original_files' = Preserved(original_files, file_dates)
  /\ file_dates' = EmptyMap
  /\ all_vbr' = TRUE
  /\ all_bad' = TRUE
  /\ pc' = "scan"
  /\ extracted' = {}
  /\ undated' = {}
  /\ durations' = {}
  /\ UNCHANGED <<bounds, orgvars, auxvars>>

\* a slip in lines 120-121: the flag follows the last file
AllVbrAfter_LastFile(flag, metadata) == metadata.bitrate_mode = "VBR"

\* analyze_audio_file, lines 120-121: self.all_vbr after a file with this
\* metadata
AllVbrAfter(flag, metadata) ==
  IF metadata.bitrate_mode # "VBR" THEN FALSE ELSE flag

\* analyze_files, lines 50-55: one iteration of the loop over iterdir()
AnalyzeFile(file_path, af, mtime) ==
  /\ pc = "scan"
  /\ file_path \notin extracted
  /\ analyze_audio_file(af) # None => Cardinality(extracted) < MaxFiles
  /\ LET metadata == analyze_audio_file(af)
         tl == process_metadata(Snapshot, metadata, file_path, mtime)
     IN  IF Lower(file_path.suffix) \in {".mp3", ".m4a"} /\ metadata # None
         THEN /\ all_bad' = FALSE
              /\ all_vbr' = AllVbrAfter(all_vbr, metadata)
              /\ file_dates' = tl.dates
              /\ bitrates' = tl.bitrates
              /\ file_formats' = tl.formats
              /\ extracted' = extracted \cup {file_path}
              /\ undated' = IF ResolveDate(metadata.recording_date, file_path, mtime) = Unknown
                            THEN undated \cup {file_path} ELSE undated
              /\ durations' = Timed(durations, trailer_patterns, file_path)
         ELSE UNCHANGED <<all_bad, all_vbr, file_dates, bitrates, file_formats,
                          extracted, undated, durations>>
  /\ UNCHANGED <<original_files, bounds, pc, orgvars, auxvars>>

\* analyze_files, line 52, for an MP4 whose tags cannot be read (tags is
\* None, or the date atom holds an empty list): line 113 of
\* analyze_audio_file raises outside of any try, and the exception leaves
\* analyze_files with the loop unfinished
AnalyzeFileRaises(file_path) ==
  /\ pc = "scan"
  /\ file_path \notin extracted
  /\ Lower(file_path.suffix) = ".m4a"
  /\ pc' = "raised"
  /\ durations' = Timed(durations, trailer_patterns, file_path)
  /\ UNCHANGED <<file_dates, bitrates, file_formats, original_files, all_vbr,
                 all_bad, extracted, undated, bounds, orgvars, auxvars>>

\* analyze_files, lines 56-63: the end of the scan
AnalyzeFilesEnd ==
  /\ pc = "scan"
  /\ pc' = "ready"
  /\ IF all_bad
     THEN UNCHANGED <<file_dates, bounds>>
     ELSE LET r == get_date_range(file_dates, original_files)
          IN  file_dates' = r.file_dates /\ SetBounds(r.b)
  /\ extracted' = {} /\ undated' = {}
  /\ UNCHANGED <<bitrates, file_formats, original_files, all_vbr, all_bad,
                 durations, orgvars, auxvars>>

\* a slip in remove_file: the duration of the removed file is dropped too
remove_file_DropDuration(file_path) ==
  /\ pc = "ready"
  /\ bitrates' = RemoveFromAll(bitrates, file_path)
  /\ file_formats' = RemoveFromAll(file_formats, file_path)
  /\ LET r == get_date_range(RemoveFromAll(file_dates, file_path), original_files)
     IN  file_dates' = r.file_dates /\ SetBounds(r.b)
  /\ durations' = IF Tracked(file_path) THEN durations \ {Length(file_path)}
                  ELSE durations
  /\ UNCHANGED <<original_files, all_vbr, all_bad, pc, extracted, undated,
                 orgvars, auxvars>>

\* FileAnalyzer.remove_file
remove_file(file_path) ==
  /\ pc = "ready"
  /\ bitrates' = RemoveFromAll(bitrates, file_path)
  /\ file_formats' = RemoveFromAll(file_formats, file_path)
  /\ LET r == get_date_range(RemoveFromAll(file_dates, file_path), original_files)
     IN  file_dates' = r.file_dates /\ SetBounds(r.b)
  /\ UNCHANGED <<scanvars, orgvars, auxvars>>

\* update_file_path, lines 362-376: the three bucket mappings after the call
Updated(tl, old_path, new_path) ==
  [dates    |-> UpdateInAll(tl.dates, old_path, new_path),
   bitrates |-> UpdateInAll(tl.bitrates, old_path, new_path),
   formats  |-> UpdateInAll(tl.formats, old_path, new_path)]

\* FileAnalyzer.update_file_path
update_file_path(old_path, new_path) ==
  /\ pc = "ready"
  /\ LET tl == Updated(Snapshot, old_path, new_path)
     IN  /\ bitrates' = tl.bitrates
         /\ file_formats' = tl.formats
         /\ file_dates' = tl.dates
  /\ UNCHANGED <<bounds, scanvars, orgvars, auxvars>>

\* The callers rename to any path.  A rename onto a path the Timeline already
\* tracks (the target name was taken) is explored from every state that holds
\* no duplicate yet; renames onto untracked paths, removals and scans are
\* explored from every state.
Next ==
  \/ AnalyzeFilesBegin
  \/ \E file_path \in Paths : \E af \in AudioFiles(file_path) : \E mtime \in MTimes(file_path, af) :
       AnalyzeFile(file_path, af, mtime)
  \/ \E file_path \in Paths : AnalyzeFileRaises(file_path)
  \/ AnalyzeFilesEnd
  \/ \E file_path \in Paths : remove_file(file_path)
  \/ \E old_path \in Paths, new_path \in Paths :
       /\ Tracked(new_path) => ~Duplicated
       /\ update_file_path(old_path, new_path)

Spec == Init /\ [][Next]_vars

(* ------------------- process_metadata, one call at a time -------------- *)

\* the paths a process_metadata call is made for: no date in the name, a
\* calendar date in the name, a date-shaped substring that is no date
DatePathList ==
  << [name |-> "a", date |-> None, suffix |-> ".mp3"],
     [name |-> "b", date |-> DateList[1], suffix |-> ".mp3"],
     [name |-> "c", date |-> InvalidDate, suffix |-> ".mp3"] >>
DatePaths == {DatePathList[i] : i \in 1..Len(DatePathList)}

\* a call of process_metadata that is about to be made: the raw token of the
\* metadata, the path, and what stat() would give (None when it raises)
Calls ==
  [file_path : DatePaths, recording_date : AllRecordingDates,
   mtime : {None} \cup Dates, date_str : {None}]

\* a scan that has reset the mappings (lines 40-48) and is about to make its
\* first process_metadata call
InitDate ==
  /\ file_dates = EmptyMap
  /\ bitrates = EmptyMap
  /\ file_formats = EmptyMap
  /\ original_files = {}
  /\ earliest_year = None
  /\ first_episode_date = None
  /\ last_episode_date = None
  /\ real_first_episode_date = None
  /\ real_last_episode_date = None
  /\ all_vbr = TRUE
  /\ all_bad = TRUE
  /\ pc = "scan"
  /\ extracted = {}
  /\ undated = {}
  /\ durations = {}
  /\ folder_path = "Show"
  /\ files = {}
  /\ feed = << >>
  /\ trailer_patterns = << >>
  /\ unwanted_files = << >>
  /\ full_years_only = FALSE
  /\ completed = FALSE
  /\ opc = "idle"
  /\ assigned = {}
  /\ resolved \in Calls
  /\ db = EmptyMap
  /\ dbpc = "idle"

\* analyze_files, lines 54-55, for a 128 kbps CBR file: process_metadata
\* appends the path to the three mappings; resolved.date_str becomes the key
\* of file_dates the path was appended to
ProcessMetadataCall ==
  /\ pc = "scan"
  /\ resolved.date_str = None
  /\ LET metadata == [recording_date |-> resolved.recording_date,
                      bitrate |-> 128, bitrate_mode |-> "CBR"]
         tl == process_metadata(Snapshot, metadata, resolved.file_path,
                                resolved.mtime)
     IN  /\ file_dates' = tl.dates
         /\ bitrates' = tl.bitrates
         /\ file_formats' = tl.formats
         /\ resolved' = [resolved EXCEPT !.date_str =
                           CHOOSE k \in DOMAIN tl.dates :
                             InList(resolved.file_path, tl.dates[k])]
  /\ all_bad' = FALSE
  /\ all_vbr' = FALSE
  /\ extracted' = extracted \cup {resolved.file_path}
  /\ UNCHANGED <<original_files, bounds, pc, undated, durations, orgvars,
                 dbvars>>

NextDate == ProcessMetadataCall

SpecDate == InitDate /\ [][NextDate]_vars

(* ============================ the organizer ============================ *)

\* The names of the files a podcast folder can hold.  Every name has the
\* form '[Show - ]<date> [Ep. NN - ]<words><suffix>' (the date may be missing):
\* prefix is "Show" or "" (the name starts with the date), ep is None or
\* <<number, digits written>>, title the words of the name.
NameList ==
  << [prefix |-> "Show", date |-> DateList[1], ep |-> None,
      title |-> <<"launch", "!">>,
      suffix |-> ".mp3"],
     [prefix |-> "Show", date |-> DateList[1], ep |-> None,
      title |-> <<"Growth">>,
      suffix |-> ".mp3"],
     [prefix |-> "Show", date |-> DateList[1], ep |-> <<1, 1>>,
      title |-> <<"Bonus">>,
      suffix |-> ".mp3"],
     [prefix |-> "Show", date |-> DateList[2], ep |-> <<10, 2>>,
      title |-> <<"trailer">>,
      suffix |-> ".m4a"],
     [prefix |-> "Show", date |-> None, ep |-> None,
      title |-> <<"Trailer">>,
      suffix |-> ".mp3"],
     [prefix |-> "Show", date |-> DateList[3], ep |-> None,
      title |-> <<"Party">>,
      suffix |-> ".mp3"] >>

\* folder_path / name
PathIn(dir, n) ==
  [dir |-> dir, prefix |-> n.prefix, date |-> n.date, ep |-> n.ep,
   title |-> n.title, suffix |-> n.suffix]

\* '(' in self.podcast.folder_path.name
HasParen(dir) == dir \in {"Show (2019)", "Show (2020-2021)"}

\* the titles of the feed, and the feeds get_episodes() can return
TTrailer == <<"Trailer">>
TLaunch == <<"Launch">>
TGrowth == <<"Growth">>
TLaunchAgain == <<"LAUNCH", "!">>
FeedList ==
  << << >>,
     <<TGrowth, TLaunch, TTrailer>>,
     <<TGrowth, TLaunch>>,
     <<TLaunch, TGrowth, TTrailer>>,
     <<TLaunchAgain, TLaunch>> >>

(* ------------------------------ strings -------------------------------- *)

Punctuation == {"!", "-", "."}
IsWord(w) == w \notin Punctuation

\* s.lower(), word by word
LowerAll(s) == [i \in 1..Len(s) |-> Lower(s[i])]

\* utils.normalize_string: case-folds and drops the punctuation
normalize_string(s) == SelectSeq(LowerAll(s), IsWord)

\* sub in s
Contains(sub, s) ==
  \E i \in 0..(Len(s) - Len(sub)) : SubSeq(s, i + 1, i + Len(sub)) = sub

\* list.reverse()
Reverse(s) == [i \in 1..Len(s) |-> s[Len(s) + 1 - i]]

\* len(str(n)) for the numbers that occur
Digits(n) == IF n < 10 THEN 1 ELSE IF n < 100 THEN 2 ELSE 3

\* a slip in zfill: the number is written without padding
ZFill_NoPad(n, width) == Digits(n)

\* len(str(n).zfill(width))
ZFill(n, width) == IF Digits(n) > width THEN Digits(n) ELSE width

(* --------------------- the Timeline under the organizer ---------------- *)

\* the buckets after remove_file(file_path), lines 340-353
Removed(tl, file_path) ==
  [dates    |-> Pruned(RemoveFromAll(tl.dates, file_path)),
   bitrates |-> RemoveFromAll(tl.bitrates, file_path),
   formats  |-> RemoveFromAll(tl.formats, file_path)]

\* remove_file for every path of a set
RECURSIVE RemovedAll(_, _)
RemovedAll(tl, S) ==
  IF S = {} THEN tl
  ELSE LET p == CHOOSE x \in S : TRUE
       IN  RemovedAll(Removed(tl, p), S \ {p})

\* update_file_path(r.old, r.new) for every rename r of a set
RECURSIVE UpdatedAll(_, _)
UpdatedAll(tl, R) ==
  IF R = {} THEN tl
  ELSE LET r == CHOOSE x \in R : TRUE
       IN  UpdatedAll(Updated(tl, r.old, r.new), R \ {r})

\* the analyzer's mappings become tl; the bounds are recomputed when some
\* remove_file call was made
SetTimeline(tl, recompute) ==
  /\ file_dates' = tl.dates
  /\ bitrates' = tl.bitrates
  /\ file_formats' = tl.formats
  /\ IF recompute
     THEN SetBounds(get_date_range(tl.dates, original_files).b)
     ELSE UNCHANGED bounds

TimelineUnchanged == UNCHANGED <<file_dates, bitrates, file_formats, bounds>>

\* the metadata of a file without date tags (128 kbps, constant bitrate)
TagFree == [recording_date |-> None, bitrate |-> 128, bitrate_mode |-> "CBR"]

\* the buckets analyze_files builds for the files NameList[i], i in chosen,
\* of folder dir, taken in the order of NameList; stat() is not consulted
RECURSIVE ScanFolder(_, _, _, _)
ScanFolder(tl, dir, chosen, i) ==
  IF i > Len(NameList) THEN tl
  ELSE IF i \in chosen
  THEN ScanFolder(process_metadata(tl, TagFree, PathIn(dir, NameList[i]), None),
                  dir, chosen, i + 1)
  ELSE ScanFolder(tl, dir, chosen, i + 1)

(* ------------------------ episode number reconciler -------------------- *)

\* a slip in line 121: num_digits zeros are put in front of the digits that
\* are written already
Padded_Prepend(f, num_digits) == [f EXCEPT !.ep = <<@[1], @[2] + num_digits>>]

\* pad_episode_numbers, lines 117-126: the name with its number re-written
\* as str(int(number)).zfill(num_digits)
Padded(f, num_digits) == [f EXCEPT !.ep = <<@[1], ZFill(@[1], num_digits)>>]

\* pad_episode_numbers, lines 100-129: the files of the folder afterwards
pad_episode_numbers(fs) ==
  LET files_with_episodes == {f \in fs : f.ep # None}
      numbers == {f.ep[1] : f \in files_with_episodes}
      max_episode_number == CHOOSE n \in numbers : \A k \in numbers : k <= n
      num_digits == Digits(max_episode_number)
  IN  IF files_with_episodes = {} THEN fs
      ELSE (fs \ files_with_episodes)
             \cup {Padded(f, num_digits) : f \in files_with_episodes}

\* lines 138-148: files_by_date, the files grouped by the date in their name
FilesByDate(fs) ==
  [d \in {f.date : f \in fs} \ {None} |-> {f \in fs : f.date = d}]

\* a slip in lines 152-153: a date with one file is not skipped
SharedDate_AnySize(bucket) == TRUE

\* lines 152-153: if len(files) == 1: continue
SharedDate(bucket) == Cardinality(bucket) # 1

\* lines 150-158: files_without_episode_numbers, date -> files of that date
\* that match no episode pattern
FilesWithoutEpisodeNumbers(fs) ==
  LET by == FilesByDate(fs)
      missing(d) == {f \in by[d] : f.ep = None}
  IN  [d \in {e \in DOMAIN by : SharedDate(by[e]) /\ missing(e) # {}} |->
         missing(d)]

\* find_files_without_episode_numbers: the files of the mapping it returns
find_files_without_episode_numbers(fs) ==
  UNION {FilesWithoutEpisodeNumbers(fs)[d] : d \in DOMAIN FilesWithoutEpisodeNumbers(fs)}

\* trailer_regex.search(title), lines 172-174: the regex is the alternation
\* of the escaped patterns, case-insensitive; with no pattern it is the empty
\* regex, which matches every string
TrailerSearch(patterns, title) ==
  \/ Len(patterns) = 0
  \/ \E i \in 1..Len(patterns) : Contains(LowerAll(patterns[i]), LowerAll(title))

\* lines 171-176
HasTrailer(episode_titles, patterns) ==
  Len(episode_titles) > 0 /\ TrailerSearch(patterns, episode_titles[1])

\* a slip in lines 185-186: the trailer decrement is missing
EpisodeNumber_NoDecrement(position, has_trailer) == position

\* lines 184-186: enumerate(episode_titles, start=1) and the decrement
EpisodeNumber(position, has_trailer) ==
  IF has_trailer THEN position - 1 ELSE position

\* a slip in line 188: every title counts as contained in the file name
MatchPositions_Always(f, episode_titles) == 1..Len(episode_titles)

\* lines 183-188: the positions of the titles whose normalized form is in
\* the normalized file name
MatchPositions(f, episode_titles) ==
  {i \in 1..Len(episode_titles) :
     Contains(normalize_string(episode_titles[i]), normalize_string(f.title))}

\* a slip in line 200: without the break the last matching title is used
FirstMatch_Last(positions) ==
  CHOOSE i \in positions : \A j \in positions : j <= i

\* lines 184-200: the titles are tried in order and the loop breaks at the
\* first one that matches
FirstMatch(positions) ==
  CHOOSE i \in positions : \A j \in positions : i <= j

\* assign_episode_numbers_from_rss, lines 178-200: the renames it makes; the
\* loop over the titles stops at the first match
PhaseBRenames(fs, episode_titles, patterns) ==
  LET has_trailer == HasTrailer(episode_titles, patterns)
      num_digits == Digits(Len(episode_titles))
      matched == {f \in find_files_without_episode_numbers(fs) :
                    MatchPositions(f, episode_titles) # {}}
      First(f) == FirstMatch(MatchPositions(f, episode_titles))
      Number(f) == EpisodeNumber(First(f), has_trailer)
  IN  {[old |-> f,
        new |-> [f EXCEPT !.ep = <<Number(f), ZFill(Number(f), num_digits)>>],
        position |-> First(f),
        number |-> Number(f)] : f \in matched}

\* str.capitalize() on the words that occur
Capitalize(w) ==
  CASE w = "launch" -> "Launch"
    [] w = "trailer" -> "Trailer"
    [] OTHER -> w

\* rename_file, lines 77-83: the name titlecase_filename and the configured
\* replacements give a file when they change it: its words capitalised
TitleCased(f) ==
  [f EXCEPT !.title = [i \in 1..Len(f.title) |-> Capitalize(f.title[i])]]

(* ------------------------- organize_files, step by step ---------------- *)

\* the state after the first scan of a folder: the Timeline holds the files
\* of the folder, nothing is preserved from an earlier run
InitOrg ==
  \E chosen \in SUBSET (1..Len(NameList)) \ {{}} :
    \E dir \in {"Show", "Show (2019)"} :
      LET tl == ScanFolder([dates |-> EmptyMap, bitrates |-> EmptyMap,
                            formats |-> EmptyMap], dir, chosen, 1)
          r == get_date_range(tl.dates, {})
      IN  /\ folder_path = dir
          /\ files = {PathIn(dir, NameList[i]) : i \in chosen}
          /\ file_dates = r.file_dates
          /\ bitrates = tl.bitrates
          /\ file_formats = tl.formats
          /\ earliest_year = r.b.earliest_year
          /\ first_episode_date = r.b.first
          /\ last_episode_date = r.b.last
          /\ real_first_episode_date = r.b.real_first
          /\ real_last_episode_date = r.b.real_last
          /\ original_files = {}
          /\ all_vbr = FALSE
          /\ all_bad = FALSE
          /\ pc = "ready"
          /\ extracted = {}
          /\ undated = {}
          /\ durations = {}
          /\ feed \in {FeedList[i] : i \in 1..Len(FeedList)}
          /\ trailer_patterns \in {<< >>, << <<"trailer">> >>, << <<"launch">> >>}
          /\ unwanted_files \in {<< >>, << <<"bonus">> >>}
          /\ full_years_only \in BOOLEAN
          /\ completed \in BOOLEAN
          \* check_split returns at line 249 for a completed podcast whatever
          \* full_years_only is: one of the two settings is explored
          /\ completed => full_years_only
          /\ resolved = None
          /\ db = EmptyMap
          /\ dbpc = "idle"
          /\ opc = "check_split"
          /\ assigned = {}

\* check_split: current_year is datetime.now().year, proceed the answers that
\* let the split go on, moved the files that are moved to the --CURRENT--
\* folder (a file stays when its target exists and is not to be overwritten)
check_split(current_year, proceed, moved) ==
  /\ opc = "check_split"
  /\ IF completed \/ ~full_years_only
     THEN /\ moved = {} /\ proceed
          /\ opc' = "rename_folder"
          /\ UNCHANGED files /\ TimelineUnchanged
     ELSE IF earliest_year = None \/ last_episode_date = None
     THEN \* int(None), line 256: TypeError
          /\ moved = {} /\ proceed
          /\ opc' = "raised"
          /\ UNCHANGED files /\ TimelineUnchanged
     ELSE IF \/ earliest_year[1] = last_episode_date[1]
             \/ last_episode_date[1] # current_year
             \/ ~proceed
     THEN /\ moved = {}
          /\ opc' = "rename_folder"
          /\ UNCHANGED files /\ TimelineUnchanged
     ELSE \* lines 275-293; the keys are in sorted order (line 61), "Unknown"
          \* last, and int("Unkn") raises ValueError (line 276)
          /\ moved \subseteq
               {p \in files : \E k \in DOMAIN file_dates \ {Unknown} :
                                k[1] = current_year /\ InList(p, file_dates[k])}
          /\ files' = files \ moved
          /\ SetTimeline(RemovedAll(Snapshot, moved), moved # {})
          /\ opc' = IF Unknown \in DOMAIN file_dates THEN "raised"
                    ELSE "rename_folder"
  /\ UNCHANGED <<folder_path, config, assigned, scanvars, auxvars>>

\* rename_folder: new_folder_name is the name the answers select, "" when
\* every prompt is declined and the custom name is left blank
rename_folder(new_folder_name) ==
  /\ opc = "rename_folder"
  /\ IF HasParen(folder_path)
     THEN /\ new_folder_name = ""
          /\ opc' = "rename_files"
          /\ UNCHANGED <<folder_path, files>>
     ELSE IF last_episode_date = None \/ real_last_episode_date = None
     THEN \* datetime.strptime(None, ...), lines 329-330: TypeError
          /\ new_folder_name = ""
          /\ opc' = "raised"
          /\ UNCHANGED <<folder_path, files>>
     ELSE IF new_folder_name # ""
     THEN /\ folder_path' = new_folder_name
          /\ files' = {[f EXCEPT !.dir = new_folder_name] : f \in files}
          /\ opc' = "rename_files"
     ELSE /\ opc' = "rename_files"
          /\ UNCHANGED <<folder_path, files>>
  /\ TimelineUnchanged
  /\ UNCHANGED <<config, assigned, scanvars, auxvars>>

\* rename_files: cased are the files rename_file gives a new name
rename_files(cased) ==
  /\ opc = "rename_files"
  /\ cased \subseteq {f \in files : TitleCased(f) # f}
  /\ files' = (files \ cased) \cup {TitleCased(f) : f \in cased}
  /\ SetTimeline(UpdatedAll(Snapshot,
                            {[old |-> f, new |-> TitleCased(f)] : f \in cased}),
                 FALSE)
  /\ opc' = "find_unwanted_files"
  /\ UNCHANGED <<folder_path, config, assigned, scanvars, auxvars>>

\* find_unwanted_files: removed are the unwanted files the user has removed
find_unwanted_files(removed) ==
  /\ opc = "find_unwanted_files"
  /\ removed \subseteq
       {f \in files : \E i \in 1..Len(unwanted_files) :
                        Contains(LowerAll(unwanted_files[i]), LowerAll(f.title))}
  /\ files' = files \ removed
  /\ SetTimeline(RemovedAll(Snapshot, removed), removed # {})
  /\ opc' = "pad_episode_numbers"
  /\ UNCHANGED <<folder_path, config, assigned, scanvars, auxvars>>

\* lines 191-192: re.split(title_split_pattern, original_title) gives two
\* parts: the name without its date holds the ' - ' that follows the prefix
Splittable(f) == f.prefix # ""

\* check_numbering, line 207
PadEpisodeNumbers ==
  /\ opc = "pad_episode_numbers"
  /\ files' = pad_episode_numbers(files)
  /\ TimelineUnchanged
  /\ opc' = "assign_episode_numbers"
  /\ UNCHANGED <<folder_path, config, assigned, scanvars, auxvars>>

\* check_numbering, lines 208-210.  No name of NameList has the form
\* '<date> NN. <title>' of numbered_episode_pattern, so lines 215-239 do not
\* run.
assign_episode_numbers_from_rss ==
  /\ opc = "assign_episode_numbers"
  /\ LET renames == PhaseBRenames(files, Reverse(feed), trailer_patterns)
     IN  /\ \A r \in renames : Splittable(r.old)
         /\ files' = (files \ {r.old : r \in renames}) \cup {r.new : r \in renames}
         /\ SetTimeline(UpdatedAll(Snapshot, renames), FALSE)
         /\ assigned' = renames
  /\ opc' = "done"
  /\ UNCHANGED <<folder_path, config, scanvars, auxvars>>

\* assign_episode_numbers_from_rss when file_path.rename(new_path), line 197,
\* raises OSError for the candidate of the rename failed: the call is inside
\* no try, so the exception leaves the method.  done are the renames made
\* before it (rglob yields the files in directory order, which is any order)
assign_episode_numbers_rename_raises(failed, done) ==
  /\ opc = "assign_episode_numbers"
  /\ LET renames == PhaseBRenames(files, Reverse(feed), trailer_patterns)
     IN  /\ failed \in renames
         /\ Splittable(failed.old)
         /\ done \subseteq {r \in renames \ {failed} : Splittable(r.old)}
         /\ files' = (files \ {r.old : r \in done}) \cup {r.new : r \in done}
         /\ SetTimeline(UpdatedAll(Snapshot, done), FALSE)
         /\ assigned' = done
  /\ opc' = "rename_raised"
  /\ UNCHANGED <<folder_path, config, scanvars, auxvars>>

\* assign_episode_numbers_from_rss when the name of the matched candidate
\* failed has no ' - ' left once its date is removed: title_parts has one
\* element and title_parts[1], line 194, raises IndexError, inside no try.
\* done are the renames made before it
assign_episode_numbers_split_raises(failed, done) ==
  /\ opc = "assign_episode_numbers"
  /\ LET renames == PhaseBRenames(files, Reverse(feed), trailer_patterns)
     IN  /\ failed \in renames
         /\ ~Splittable(failed.old)
         /\ done \subseteq {r \in renames \ {failed} : Splittable(r.old)}
         /\ files' = (files \ {r.old : r \in done}) \cup {r.new : r \in done}
         /\ SetTimeline(UpdatedAll(Snapshot, done), FALSE)
         /\ assigned' = done
  /\ opc' = "split_raised"
  /\ UNCHANGED <<folder_path, config, scanvars, auxvars>>

\* organize_files with every file-system call succeeding; the exceptions a
\* rename or a split of Phase B can raise are followed in SpecNumbering
NextOrg ==
  \/ \E current_year \in {2021, 2022} : \E proceed \in BOOLEAN :
       \E moved \in SUBSET files : check_split(current_year, proceed, moved)
  \/ \E new_folder_name \in {"", "Show (2020-2021)"} :
       rename_folder(new_folder_name)
  \/ \E cased \in SUBSET files : rename_files(cased)
  \/ \E removed \in SUBSET files : find_unwanted_files(removed)
  \/ PadEpisodeNumbers
  \/ assign_episode_numbers_from_rss

SpecOrg == InitOrg /\ [][NextOrg]_vars

(* ============================ check_numbering ========================== *)

\* The names of a folder whose files were not all named by one scheme: two
\* names start with the date, two hold the word Launch, and the episode 1 of
\* Bonus is there as 'Ep. 1' and as 'Ep. 01'.
NumberingNameList ==
  << NameList[1],
     [prefix |-> "", date |-> DateList[1], ep |-> None,
      title |-> <<"Growth">>, suffix |-> ".mp3"],
     [prefix |-> "Show", date |-> DateList[1], ep |-> None,
      title |-> <<"Launch", "Party">>, suffix |-> ".mp3"],
     NameList[3],
     [prefix |-> "Show", date |-> DateList[1], ep |-> <<1, 2>>,
      title |-> <<"Bonus">>, suffix |-> ".mp3"],
     NameList[4] >>

\* the buckets analyze_files builds for the files names[i], i in chosen, of
\* folder dir, taken in the order of names; stat() is not consulted
RECURSIVE ScanNames(_, _, _, _, _)
ScanNames(names, tl, dir, chosen, i) ==
  IF i > Len(names) THEN tl
  ELSE IF i \in chosen
  THEN ScanNames(names,
                 process_metadata(tl, TagFree, PathIn(dir, names[i]), None),
                 dir, chosen, i + 1)
  ELSE ScanNames(names, tl, dir, chosen, i + 1)

\* organize_files has reached check_numbering (line 312) after the first scan
\* of the folder, with no file renamed or removed by the steps before it
InitNumbering ==
  \E chosen \in SUBSET (1..Len(NumberingNameList)) \ {{}} :
    LET tl == ScanNames(NumberingNameList,
                        [dates |-> EmptyMap, bitrates |-> EmptyMap,
                         formats |-> EmptyMap], "Show (2019)", chosen, 1)
        r == get_date_range(tl.dates, {})
    IN  /\ folder_path = "Show (2019)"
        /\ files = {PathIn("Show (2019)", NumberingNameList[i]) : i \in chosen}
        /\ file_dates = r.file_dates
        /\ bitrates = tl.bitrates
        /\ file_formats = tl.formats
        /\ earliest_year = r.b.earliest_year
        /\ first_episode_date = r.b.first
        /\ last_episode_date = r.b.last
        /\ real_first_episode_date = r.b.real_first
        /\ real_last_episode_date = r.b.real_last
        /\ original_files = {}
        /\ all_vbr = FALSE
        /\ all_bad = FALSE
        /\ pc = "ready"
        /\ extracted = {}
        /\ undated = {}
        /\ durations = {}
        /\ feed \in {FeedList[i] : i \in 1..Len(FeedList)}
        /\ trailer_patterns \in {<< >>, << <<"trailer">> >>, << <<"launch">> >>}
        /\ unwanted_files = << >>
        /\ full_years_only = FALSE
        /\ completed = FALSE
        /\ resolved = None
        /\ db = EmptyMap
        /\ dbpc = "idle"
        /\ opc = "pad_episode_numbers"
        /\ assigned = {}

\* check_numbering, lines 207-210
NextNumbering ==
  \/ PadEpisodeNumbers
  \/ assign_episode_numbers_from_rss
  \/ \E failed \in PhaseBRenames(files, Reverse(feed), trailer_patterns) :
       \E done \in SUBSET PhaseBRenames(files, Reverse(feed), trailer_patterns) :
         assign_episode_numbers_rename_raises(failed, done)
  \/ \E failed \in PhaseBRenames(files, Reverse(feed), trailer_patterns) :
       \E done \in SUBSET PhaseBRenames(files, Reverse(feed), trailer_patterns) :
         assign_episode_numbers_split_raises(failed, done)

SpecNumbering == InitNumbering /\ [][NextNumbering]_vars

(* ============================== the database =========================== *)

\* Podcast.get_clean_name: the name up to its first '(', stripped
get_clean_name(name) ==
  IF name \in {"Show (2019)", "Show (2020-2021)"} THEN "Show" ELSE name

\* Podcast.get_hash: the md5 digest of the clean name
get_hash(name) == <<"md5", get_clean_name(name)>>

\* str(path)
PathString(p) == <<"str", p>>

\* utils.convert_paths_to_strings: the mapping with every path as a string
convert_paths_to_strings(m) ==
  [k \in DOMAIN m |-> [i \in 1..Len(m[k]) |-> PathString(m[k][i])]]

\* table.upsert(fields, Podcast.hash == hash): the fields are written into
\* the document of the hash, which is created when there is none
Upsert(table, hash, fields) ==
  [h \in DOMAIN table \cup {hash} |->
     IF h # hash THEN table[h]
     ELSE IF hash \in DOMAIN table THEN fields @@ table[hash] ELSE fields]

\* a call insert_podcast(*args) of Database.insert_podcast(self, hash,
\* metadata, external_data): the three parameters have no default, so a call
\* with another number of arguments raises TypeError before the body runs
insert_podcast(table, args) ==
  IF Len(args) # 3 THEN [raised |-> TRUE, table |-> table]
  ELSE [raised |-> FALSE,
        table |-> Upsert(table, args[1],
                         [hash |-> args[1], metadata |-> args[2],
                          external_data |-> args[3]])]

\* Database.get_podcast: the document of the hash, None when there is none
get_podcast(table, hash) ==
  IF hash \in DOMAIN table THEN table[hash] ELSE None

\* Database.update_podcast: table.update changes existing documents only
update_podcast(table, hash, fields) ==
  IF hash \in DOMAIN table THEN Upsert(table, hash, fields) ELSE table

\* Database.delete_podcast
delete_podcast(table, hash) == [h \in DOMAIN table \ {hash} |-> table[h]]

\* the values of metadata.data and metadata.external_data
MetadataValues == {"m0", "m1"}

\* the podcasts table at start: empty, or holding the document an earlier
\* insert_podcast(hash, metadata, external_data) wrote for this podcast
Tables ==
  {EmptyMap} \cup
  {Upsert(EmptyMap, get_hash("Show"),
          [hash |-> get_hash("Show"), metadata |-> m, external_data |-> "m0"]) :
     m \in MetadataValues}

\* Podcast.add_to_database, lines 157-171
add_to_database(refresh) ==
  /\ dbpc = "idle"
  /\ LET hash == get_hash(folder_path)
         table == IF refresh THEN delete_podcast(db, hash) ELSE db
         files_as_strings == convert_paths_to_strings(file_dates)
         r == insert_podcast(table, <<hash, files_as_strings>>)
     IN  /\ db' = r.table
         /\ dbpc' = IF r.raised THEN "raised" ELSE "idle"
  /\ UNCHANGED <<file_dates, bitrates, file_formats, bounds, scanvars, orgvars,
                 resolved>>

\* Podcast.load_from_database, lines 137-155; the key 'files' of a document
\* that has none raises KeyError
load_from_database ==
  /\ dbpc = "idle"
  /\ LET podcast_data == get_podcast(db, get_hash(folder_path))
     IN  IF podcast_data = None
         THEN UNCHANGED <<file_dates, dbpc>>
         ELSE IF "files" \in DOMAIN podcast_data
         THEN file_dates' = podcast_data["files"] /\ UNCHANGED dbpc
         ELSE dbpc' = "raised" /\ UNCHANGED file_dates
  /\ UNCHANGED <<db, bitrates, file_formats, bounds, scanvars, orgvars,
                 resolved>>

\* Podcast.add_metadata_to_database, lines 173-183
add_metadata_to_database(metadata, external_data) ==
  /\ dbpc = "idle"
  /\ db' = update_podcast(db, get_hash(folder_path),
                          [metadata |-> metadata, external_data |-> external_data])
  /\ UNCHANGED <<dbpc, file_dates, bitrates, file_formats, bounds, scanvars,
                 orgvars, resolved>>

\* the state after the first scan of a folder, with the table as an earlier
\* run left it
InitDb ==
  \E chosen \in SUBSET (1..Len(NameList)) :
    \E dir \in {"Show", "Show (2019)"} :
      LET tl == ScanFolder([dates |-> EmptyMap, bitrates |-> EmptyMap,
                            formats |-> EmptyMap], dir, chosen, 1)
          r == get_date_range(tl.dates, {})
      IN  /\ folder_path = dir
          /\ files = {PathIn(dir, NameList[i]) : i \in chosen}
          /\ file_dates = r.file_dates
          /\ bitrates = tl.bitrates
          /\ file_formats = tl.formats
          /\ earliest_year = r.b.earliest_year
          /\ first_episode_date = r.b.first
          /\ last_episode_date = r.b.last
          /\ real_first_episode_date = r.b.real_first
          /\ real_last_episode_date = r.b.real_last
          /\ original_files = {}
          /\ all_vbr = FALSE
          /\ all_bad = (chosen = {})
          /\ pc = "ready"
          /\ extracted = {}
          /\ undated = {}
          /\ durations = {}
          /\ feed = << >>
          /\ trailer_patterns = << >>
          /\ unwanted_files = << >>
          /\ full_years_only = FALSE
          /\ completed = FALSE
          /\ opc = "idle"
          /\ assigned = {}
          /\ resolved = None
          /\ db \in Tables
          /\ dbpc = "idle"

NextDb ==
  \/ \E refresh \in BOOLEAN : add_to_database(refresh)
  \/ load_from_database
  \/ \E metadata \in MetadataValues, external_data \in MetadataValues :
       add_metadata_to_database(metadata, external_data)

SpecDb == InitDb /\ [][NextDb]_vars

(* ------------------------ vocabulary of the claims --------------------- *)

\* two mappings hold the same keys and, under each key, the same paths the
\* same number of times
SameContents(m1, m2) ==
  /\ DOMAIN m1 = DOMAIN m2
  /\ \A k \in DOMAIN m1 :
       /\ Len(m1[k]) = Len(m2[k])
       /\ \A p \in Paths : Count(m1[k], p) = Count(m2[k], p)

NonUnknown(keys) == keys \ {Unknown}
LexMin(S) == CHOOSE d \in S : \A e \in S : d = e \/ LexLess(d, e)
LexMax(S) == CHOOSE d \in S : \A e \in S : d = e \/ LexLess(e, d)
MinOrNone(S) == IF S = {} THEN None ELSE LexMin(S)
MaxOrNone(S) == IF S = {} THEN None ELSE LexMax(S)
MinYearOrNone(S) ==
  IF S = {} THEN None
  ELSE <<CHOOSE y \in {d[1] : d \in S} : \A z \in {d[1] : d \in S} : y <= z>>

\* the bounds b, for the current-scan keys cur_keys and the preserved keys
\* orig, as the contract of recompute_bounds states them
BoundsAsStated(b, cur_keys, orig) ==
  LET cur == NonUnknown(cur_keys)
      all == cur \cup NonUnknown(orig)
  IN  /\ b.first = MinOrNone(cur)
      /\ b.last = MaxOrNone(cur)
      /\ b.earliest_year = MinYearOrNone(cur)
      /\ b.real_first = MinOrNone(all)
      /\ b.real_last = MaxOrNone(all)

\* the bounds the analyzer holds
CurrentBounds ==
  [earliest_year |-> earliest_year, first |-> first_episode_date,
   last |-> last_episode_date, real_first |-> real_first_episode_date,
   real_last |-> real_last_episode_date]

\* the result of the get_date_range call that ends the scan in progress
\* (line 62), and of the one remove_file(p) makes (line 353)
AtScanEnd == get_date_range(file_dates, original_files)
AtRemove(p) == get_date_range(RemoveFromAll(file_dates, p), original_files)

(* ------------------------------- claims -------------------------------- *)

\* C1: after get_date_range has run, first/last_episode_date are the lexical
\* minimum and maximum of the non-"Unknown" keys of file_dates, earliest_year
\* is the minimum year of those keys, and real_first/real_last_episode_date
\* are the minimum / maximum over those keys together with the non-"Unknown"
\* keys of original_files.  Stated for the two callers: the end of a scan in
\* which some file yielded metadata, and remove_file of any path.
C1_RecomputeBounds ==
  /\ (pc = "scan" /\ ~all_bad)
       => BoundsAsStated(AtScanEnd.b, DOMAIN AtScanEnd.file_dates, original_files)
  /\ pc = "ready"
       => \A p \in Paths :
            BoundsAsStated(AtRemove(p).b, DOMAIN AtRemove(p).file_dates,
                           original_files)

\* C1 witness: the preserved mapping starts at 2020-01-01, the current scan
\* at 2021-01-01, and the all-time first date is 2020-01-01.
C1_Witness ==
  /\ pc = "ready"
  /\ <<2020, 1, 1>> \in original_files
  /\ first_episode_date = <<2021, 1, 1>>
  /\ real_first_episode_date = <<2020, 1, 1>>

\* C2: in every reachable state, when the observed and the all-time bound
\* are both defined, real_first_episode_date <= first_episode_date and
\* real_last_episode_date >= last_episode_date.
C2_AllTimeCoversObserved ==
  /\ (first_episode_date # None /\ real_first_episode_date # None)
       => ~LexLess(first_episode_date, real_first_episode_date)
  /\ (last_episode_date # None /\ real_last_episode_date # None)
       => ~LexLess(real_last_episode_date, last_episode_date)

\* C2 witness: the all-time first date is strictly earlier than the observed
\* first date.
C2_Witness ==
  /\ pc = "ready"
  /\ first_episode_date # None
  /\ real_first_episode_date # None
  /\ LexLess(real_first_episode_date, first_episode_date)

\* C3 (as stated): once real_first/real_last_episode_date have a value, no
\* call moves real_first to a later date or real_last to an earlier date.
C3_NeverNarrowed ==
  [][/\ (real_first_episode_date # None /\ real_first_episode_date' # None)
          => ~LexLess(real_first_episode_date, real_first_episode_date')
     /\ (real_last_episode_date # None /\ real_last_episode_date' # None)
          => ~LexLess(real_last_episode_date', real_last_episode_date)]_vars

SameBuckets(t1, t2) ==
  /\ SameContents(t1.dates, t2.dates)
  /\ SameContents(t1.bitrates, t2.bitrates)
  /\ SameContents(t1.formats, t2.formats)

\* the buckets after update_file_path(old, new) and then
\* update_file_path(new, old), called in the current state
RoundTrip(old, new) == Updated(Updated(Snapshot, old, new), new, old)

\* C4 (as stated): in every state, for any paths old and new,
\* update_file_path(old, new) followed by update_file_path(new, old) leaves
\* every date, bitrate and format bucket with the contents it had before the
\* two calls.
C4_RoundTripAnyPaths ==
  pc = "ready" =>
    \A old \in Paths, new \in Paths :
      SameBuckets(RoundTrip(old, new), Snapshot)

\* C4 (amended): when new is tracked in no bucket before the first call,
\* update_file_path(old, new) followed by update_file_path(new, old) leaves
\* every date, bitrate and format bucket with the same paths, each the same
\* number of times, as before the two calls (the order inside a bucket may
\* differ).
C4_RoundTripFreshTarget ==
  pc = "ready" =>
    \A new \in {q \in Paths : ~Tracked(q)} : \A old \in Paths :
      SameBuckets(RoundTrip(old, new), Snapshot)

\* C4 witness: update_file_path(old, new) with a fresh new has been called (a
\* path sits, once, in a format bucket that is not the format of its own
\* suffix) and a tracked old and an untracked new exist for the round trip.
C4_Witness ==
  /\ pc = "ready"
  /\ \E old \in Paths, new \in Paths : Tracked(old) /\ ~Tracked(new)
  /\ \E k \in DOMAIN file_formats : \E p \in Paths :
       /\ InList(p, file_formats[k])
       /\ FileFormat(p) # k
       /\ CountIn(file_formats, p) = 1

\* C5 (as stated): after remove_file(p), p is in no date, bitrate or format
\* bucket, file_dates has no empty bucket, and the bounds are those of the
\* remaining mapping.
C5_RemoveFile ==
  [][\A p \in Paths :
       remove_file(p)
         => /\ ~Tracked(p)'
            /\ \A k \in DOMAIN file_dates' : Len(file_dates'[k]) > 0
            /\ BoundsAsStated(CurrentBounds', DOMAIN file_dates', original_files')]_vars

\* the effect C6 states for one mapping
Renamed(m1, m2, old, new) ==
  /\ DOMAIN m2 = DOMAIN m1
  /\ \A k \in DOMAIN m1 :
       IF InList(old, m1[k])
       THEN /\ InList(new, m2[k])
            /\ ~InList(old, m2[k])
            /\ Len(m2[k]) = Len(m1[k])
            /\ \A q \in Paths \ {old, new} : Count(m2[k], q) = Count(m1[k], q)
       ELSE m2[k] = m1[k]

\* C6 (as stated): update_file_path(old, new) with old # new puts new into
\* exactly the buckets that contained old and removes old from them; no other
\* entry, no bucket size, no key set and no bound changes (so it is a no-op
\* when old is in no bucket).
C6_UpdateFrame ==
  [][\A old \in Paths : \A new \in Paths \ {old} :
       update_file_path(old, new)
         => /\ Renamed(file_dates, file_dates', old, new)
            /\ Renamed(bitrates, bitrates', old, new)
            /\ Renamed(file_formats, file_formats', old, new)
            /\ UNCHANGED <<bounds, original_files>>]_vars

\* the paths a mapping holds
Held(m) == {m[s[1]][s[2]] : s \in Slots(m)}

\* C7 (as stated): after organize_files every path held in a date, bitrate or
\* format bucket of the Timeline is the current path of a file that exists
\* in the podcast folder.
C7_TimelineCurrent ==
  opc = "done" =>
    Held(file_dates) \cup Held(bitrates) \cup Held(file_formats) \subseteq files

\* C8 (as stated): every path occurs at most once across the date buckets,
\* at most once across the bitrate buckets and at most once across the format
\* buckets.
C8_PathsUnique ==
  \A p \in Paths :
    /\ CountIn(file_dates, p) <= 1
    /\ CountIn(bitrates, p) <= 1
    /\ CountIn(file_formats, p) <= 1

\* C9: at the end of a scan every file for which metadata was extracted is
\* in exactly one date bucket, which is the "Unknown" bucket when its date
\* did not resolve, in exactly one bitrate bucket and in exactly one format
\* bucket.  Stated on the mappings analyze_files leaves when the scan in
\* progress ends here.
C9_ScannedFilesKept ==
  (pc = "scan" /\ ~all_bad) =>
    \A p \in extracted :
      /\ CountIn(AtScanEnd.file_dates, p) = 1
      /\ CountIn(bitrates, p) = 1
      /\ CountIn(file_formats, p) = 1
      /\ p \in undated =>
           /\ Unknown \in DOMAIN AtScanEnd.file_dates
           /\ InList(p, AtScanEnd.file_dates[Unknown])

\* C9 witness: a scan about to end that has extracted metadata from two
\* files, one whose date did not resolve and one with a calendar date.
C9_Witness ==
  /\ pc = "scan"
  /\ ~all_bad
  /\ Cardinality(extracted) = 2
  /\ Cardinality(undated) = 1
  /\ Unknown \in DOMAIN file_dates
  /\ Cardinality(DOMAIN file_dates) = 2

\* the first title in chronological order (the feed reversed) contains a
\* configured trailer pattern, case-insensitively
TrailerConfigured ==
  /\ Len(feed) > 0
  /\ \E i \in 1..Len(trailer_patterns) :
       Contains(LowerAll(trailer_patterns[i]), LowerAll(Reverse(feed)[1]))

\* C10: when the first chronological reference title matches a configured
\* trailer pattern, every file that Phase B numbers gets, in its new name,
\* the 1-based chronological position of the title matched to it minus one.
C10_TrailerDecrement ==
  TrailerConfigured =>
    \A a \in assigned :
      /\ Contains(normalize_string(Reverse(feed)[a.position]),
                  normalize_string(a.old.title))
      /\ a.number = a.position - 1
      /\ a.new.ep[1] = a.position - 1

\* C10 witness: the titles are Trailer, Launch, Growth in chronological
\* order, "trailer" is a trailer pattern, and the candidate whose normalized
\* name contains "launch" has been renamed with number 1, not 2.
C10_Witness ==
  /\ opc = "done"
  /\ TrailerConfigured
  /\ Reverse(feed) = <<TTrailer, TLaunch, TGrowth>>
  /\ \E a \in assigned :
       /\ Contains(<<"launch">>, normalize_string(a.old.title))
       /\ a.position = 2
       /\ a.new.ep[1] = 1
       /\ a.new \in files

\* C11 (as stated): when the first chronological reference title matches no
\* configured trailer pattern, which includes an empty trailer_patterns, a
\* candidate matched to the title at 1-based chronological position k is
\* assigned number k.
C11_NoDecrement ==
  ~TrailerConfigured =>
    \A a \in assigned : a.number = a.position /\ a.new.ep[1] = a.position

\* the files of the folder whose name holds the date d
OnDate(d) == {g \in files : g.date = d}

Unmatched(f) ==
  \A i \in 1..Len(feed) :
    ~Contains(normalize_string(feed[i]), normalize_string(f.title))

\* a mapping holds f in the same buckets, the same number of times, before
\* and after
SameEntries(m1, m2, f) ==
  /\ \A k \in DOMAIN m1 \cap DOMAIN m2 : Count(m1[k], f) = Count(m2[k], f)
  /\ \A k \in DOMAIN m1 \ DOMAIN m2 : Count(m1[k], f) = 0
  /\ \A k \in DOMAIN m2 \ DOMAIN m1 : Count(m2[k], f) = 0

\* C13: a candidate whose normalized name contains no normalized reference
\* title is left untouched by Phase B: it is not renamed and its entries in
\* the date, bitrate and format buckets do not change; when no candidate
\* contains a title (as with an empty title list) Phase B changes no file and
\* no bucket at all.
C13_UnmatchedUntouched ==
  [][assign_episode_numbers_from_rss =>
       /\ \A f \in find_files_without_episode_numbers(files) :
            Unmatched(f) =>
              /\ f \in files'
              /\ \A a \in assigned' : a.old # f
              /\ SameEntries(file_dates, file_dates', f)
              /\ SameEntries(bitrates, bitrates', f)
              /\ SameEntries(file_formats, file_formats', f)
       /\ (\A f \in find_files_without_episode_numbers(files) : Unmatched(f))
            => UNCHANGED <<files, file_dates, bitrates, file_formats, bounds>>]_vars

\* C13 witness: Phase B has run with a non-empty title list and renamed one
\* candidate, while a tracked candidate of the same date that contains no
\* title is still in the folder under its old name.
C13_Witness ==
  /\ opc = "done"
  /\ Len(feed) > 0
  /\ assigned # {}
  /\ \E f \in files :
       /\ f.ep = None /\ f.date # None /\ Unmatched(f)
       /\ \E a \in assigned : a.old.date = f.date
       /\ f \in Held(file_dates)

\* C14: Phase A padding is idempotent: pad_episode_numbers run a second time
\* directly after a first run changes no file name.
C14_PadIdempotent ==
  pad_episode_numbers(pad_episode_numbers(files)) = pad_episode_numbers(files)

\* C14 witness: the first run has re-written 'Ep 1' as 'Ep 01', and a second
\* run on the folder as it is now changes nothing.
C14_Witness ==
  /\ opc = "assign_episode_numbers"
  /\ \E f \in files : f.ep = <<1, 2>>
  /\ pad_episode_numbers(files) = files

\* the largest episode number of a set of numbered files
MaxEpisode(S) == CHOOSE n \in {f.ep[1] : f \in S} : \A g \in S : g.ep[1] <= n

\* C15: after pad_episode_numbers every file name that had an episode number
\* carries the same number written with as many digits as the largest number
\* of the batch has, every other file keeps its name, and when no file has a
\* number nothing is renamed.
C15_PaddedToMax ==
  [][PadEpisodeNumbers =>
       LET numbered == {f \in files : f.ep # None}
       IN  IF numbered = {} THEN files' = files
           ELSE files' = (files \ numbered) \cup
                  {[f EXCEPT !.ep = <<f.ep[1], Digits(MaxEpisode(numbered))>>] :
                     f \in numbered}]_vars

\* C15 witness: padding has run on a folder with episodes 1 and 10; both are
\* now written with two digits.
C15_Witness ==
  /\ opc \in {"assign_episode_numbers", "done"}
  /\ \E f \in files, g \in files : f.ep = <<1, 2>> /\ g.ep = <<10, 2>>

\* C16 (as stated): every sequence number that Phase B writes into a file
\* name is at least 1 and is written with as many digits as the largest
\* number Phase B assigned in the batch has.
C16_PositivePadded ==
  \A a \in assigned :
    /\ a.new.ep[1] >= 1
    /\ \E b \in assigned :
         /\ \A c \in assigned : c.new.ep[1] <= b.new.ep[1]
         /\ a.new.ep[2] = Digits(b.new.ep[1])

\* C16, with a trailer pattern that is configured and matches the first
\* chronological title: the numbers are still not all positive
C16_PositiveWhenConfigured ==
  TrailerConfigured => \A a \in assigned : a.new.ep[1] >= 1

\* C17: within one reconciliation pass each candidate is renamed at most
\* once, and the number it gets is the one of the first title, in
\* chronological order, that its name contains (that position, or that
\* position less the trailer decrement), whatever later titles match as well.
C17_FirstMatchOnce ==
  \A a \in assigned :
    /\ \A b \in assigned : b.old = a.old => b = a
    /\ a.position \in MatchPositions(a.old, Reverse(feed))
    /\ \A j \in MatchPositions(a.old, Reverse(feed)) : a.position <= j
    /\ a.new.ep[1] \in {a.position, a.position - 1}
    /\ \A j \in MatchPositions(a.old, Reverse(feed)) \ {a.position} :
         a.new.ep[1] < j

\* C17 witness: the name 'launch!' contains the titles at positions 1 and 2
\* (Launch, LAUNCH!) and has been renamed once, for position 1.
C17_Witness ==
  /\ opc = "done"
  /\ \E a \in assigned :
       /\ Cardinality(MatchPositions(a.old, Reverse(feed))) = 2
       /\ a.position = 1
       /\ a.new \in files
       /\ a.old \notin files


\* the call recorded in resolved has been made
Resolved == resolved.date_str # None

\* the raw token of the call exists: it is neither None nor empty
RawToken == resolved.recording_date \notin {None, EmptyToken}

C19_AllBadStops == ~(pc = "ready" /\ all_bad)

\* C20: a tag-read exception on a file never aborts the scan: no scan is left
\* by an exception with files of the folder still to be processed.
C20_TagReadNeverAborts == pc # "raised"

\* the second half of C20, for the null recording date line 107 sets when an
\* MP3 tag read raises: the file lands in the "Unknown" bucket.
C20_NullDateUnknown ==
  Resolved /\ resolved.recording_date = None => resolved.date_str = Unknown

\* the renames Phase B would still make on the files as they are now
PendingRenames == PhaseBRenames(files, Reverse(feed), trailer_patterns)

\* C21: when the rename of one Phase B candidate fails, the other candidates
\* of the batch are still processed: after the failure the failed candidate is
\* the only file left that Phase B would rename.
C21_RenameFailureLocal ==
  opc = "rename_raised" => Cardinality(PendingRenames) = 1

\* a scan is going on, or was left by an exception
InScan == pc \in {"scan", "raised"}

\* C22: within a scan all_vbr is true exactly as long as no file processed so
\* far is CBR: it starts true, is false from the first CBR file on, and no
\* file processed later makes it true again.
C22_AllVbrLatch ==
  InScan => (all_vbr <=> DOMAIN bitrates \subseteq {"VBR"})

\* the CBR file "c" and after it the VBR file "a" have been processed
C22_Witness ==
  /\ pc = "scan"
  /\ ~all_vbr
  /\ "mp3" \in DOMAIN file_formats
  /\ Len(file_formats["mp3"]) = 2
  /\ file_formats["mp3"][1].name = "c"
  /\ file_formats["mp3"][2].name = "a"
  /\ "VBR" \in DOMAIN bitrates

\* C23: the year computations skip a bucket whose key has no numeric year,
\* "Unknown" included, without raising: with dated files in the mapping (so
\* that int(earliest_year) and last_episode_date[:4] are defined) and an
\* "Unknown" bucket beside them, organize_files is never left by an exception
\* of the year test in check_split.
C23_UnknownSkipped ==
  /\ Unknown \in DOMAIN file_dates
  /\ earliest_year # None
  /\ last_episode_date # None
  => opc # "raised"

\* the document of this podcast holds the mapping m with paths as strings
Stores(table, m) ==
  /\ get_hash(folder_path) \in DOMAIN table
  /\ "files" \in DOMAIN table[get_hash(folder_path)]
  /\ table[get_hash(folder_path)]["files"] = convert_paths_to_strings(m)

\* C24: add_to_database stores the current date-to-files mapping, paths as
\* strings, under the hash of the podcast, and load_from_database sets
\* file_dates to the mapping stored under that hash.
C24_PersistenceRoundTrip ==
  [][/\ (\E refresh \in BOOLEAN : add_to_database(refresh))
          => dbpc' = "idle" /\ Stores(db', file_dates)
     /\ load_from_database /\ get_hash(folder_path) \in DOMAIN db
          => /\ dbpc' = "idle"
             /\ file_dates' = db[get_hash(folder_path)]["files"]]_vars

\* C25: the preserved all-time mapping is captured exactly once.  A rebuild
\* that starts with a non-empty current mapping and nothing preserved stores
\* the keys of that mapping before clearing it; once something is preserved,
\* no step of analyze_files, remove_file or update_file_path changes it.
C25_PreservedOnce ==
  [][/\ original_files # {} => original_files' = original_files
     /\ original_files = {} /\ original_files' # {}
          => /\ pc \in {"new", "ready"} /\ pc' = "scan"
             /\ file_dates # EmptyMap
             /\ original_files' = DOMAIN file_dates
             /\ file_dates' = EmptyMap
     /\ original_files = {} /\ file_dates # EmptyMap /\ pc' = "scan" /\ pc # "scan"
          => original_files' = DOMAIN file_dates]_vars

\* a later scan has ended with other dates than the preserved ones
C25_Witness ==
  /\ pc = "ready"
  /\ original_files # {}
  /\ file_dates # EmptyMap
  /\ DOMAIN file_dates # original_files

\* C26: a matched candidate whose name cannot be split into prefix and suffix
\* does not abort the Phase B pass: no exception of the split leaves
\* assign_episode_numbers_from_rss.
C26_UnsplittableSkipped == opc # "split_raised"

\* the observed bounds are those of the current-scan mapping
ObservedAgree ==
  LET cur == NonUnknown(DOMAIN file_dates)
  IN  /\ first_episode_date = MinOrNone(cur)
      /\ last_episode_date = MaxOrNone(cur)
      /\ earliest_year = MinYearOrNone(cur)

\* C27: between the calls of analyze_files, remove_file and update_file_path
\* the observed bounds agree with the current-scan mapping: first and
\* last_episode_date are the least and greatest non-"Unknown" key of
\* file_dates (None when there is none) and earliest_year is the year of
\* first_episode_date, also after a scan in which no file yielded metadata.
C27_ObservedBoundsAgree == pc \in {"new", "ready"} => ObservedAgree

\* the same for the states whose last scan found a file with metadata
C27_AgreeAfterGoodScan == (pc = "ready" /\ ~all_bad) => ObservedAgree

\* sum(durations)
RECURSIVE Sum(_)
Sum(S) == IF S = {} THEN 0 ELSE LET x == CHOOSE y \in S : TRUE
                               IN  x + Sum(S \ {x})

\* get_average_duration, get_longest_duration, get_shortest_duration over the
\* keys d (the quotient is whole for the lengths that occur)
get_average_duration(d) ==
  IF d = {} THEN None ELSE <<Sum(d) \div Cardinality(d)>>
get_longest_duration(d) ==
  IF d = {} THEN None ELSE <<CHOOSE x \in d : \A y \in d : y <= x>>
get_shortest_duration(d) ==
  IF d = {} THEN None ELSE <<CHOOSE x \in d : \A y \in d : x <= y>>

\* what the three getters return
DurationReport(d) ==
  <<get_average_duration(d), get_longest_duration(d), get_shortest_duration(d)>>

\* C28: remove_file and update_file_path leave the durations untouched: the
\* average, longest and shortest duration are the same after the call as
\* before it.  (The steps from a ready analyzer to a ready analyzer are the
\* calls of remove_file and update_file_path.)
C28_DurationsFrame ==
  [][pc = "ready" /\ pc' = "ready"
       => DurationReport(durations') = DurationReport(durations)]_vars

\* "b", the one file of a minute and a half, has been removed or renamed
\* away, and its duration is still the longest
C28_Witness ==
  /\ pc = "ready"
  /\ file_dates # EmptyMap
  /\ \A p \in Paths : Tracked(p) => Length(p) # 90
  /\ get_longest_duration(durations) = <<90>>

\* C29: within one Phase B pass no two distinct candidate files are assigned
\* the same episode number.
C29_NumbersDistinct ==
  \A a \in assigned, b \in assigned :
    a.old # b.old => a.number # b.number

\* C30: padding never gives two files one name: pad_episode_numbers leaves
\* the number of files in the folder as it was.
C30_PaddingInjective ==
  [][PadEpisodeNumbers => Cardinality(files') = Cardinality(files)]_vars
=============================================================================
